---- MODULE Spec2Model ----
(***************************************************************************)
(* Model of the NSE shareholding scraper: the category aggregation pass    *)
(* over a fetched XBRL document (fetch_data_from_xbrl), the retrying HTTP  *)
(* fetch (get_session_with_retries + session.get) and the thread-pool      *)
(* orchestrator (fetch_data_by_context_refs / __main__).                   *)
(*                                                                         *)
(* Three specifications share the definitions:                             *)
(*   Spec       a run of the orchestrator over NumRows rows;               *)
(*   SpecFetch  a run over one row with every HTTP exchange logged;        *)
(*   SpecAgg    the aggregation pass over one document, node by node.      *)
(*                                                                         *)
(* The retry behaviour of session.get is that of urllib3's Retry as the    *)
(* source configures it: total counts retries, transport errors and the    *)
(* listed statuses are retried for GET, and a Retry-After header is        *)
(* honoured on 413, 429 and 503.                                           *)
(*                                                                         *)
(* Numbers: element values and totals are integers (exact arithmetic);     *)
(* the rounding of Python floats is not modelled.                          *)
(***************************************************************************)
EXTENDS Integers, Sequences, FiniteSets, TLC

VARIABLES
    category_contexts,  \* the membership table handed to the run
    df,                 \* the input table: a sequence of rows {symbol, xbrl}
    submitted,          \* number of tasks handed to executor.submit so far
    pc,                 \* per row: "queued" | "running" | "done"
    retry_total,        \* per row: Retry.total left while its session lives
    response,           \* per row: what session.get ended with (Pending before)
    future,             \* per row: the future's content (Pending before)
    yielded,            \* rows as_completed has already handed to the loop
    all_results,        \* the list the collecting loop appends to
    sessions,           \* the requests sessions created so far
    result_df,          \* orchestrator: <<>>, then <<the result table>>
    log,                \* HTTP exchanges of the observed fetch, in order
    xml,                \* aggregation pass: the response content
    nodes,              \* aggregation pass: the xpath result list
    k,                  \* aggregation pass: index of the next node
    totals,             \* aggregation pass: the running totals dict
    apc,                \* aggregation pass: "parse" | "loop" | "done"
    result,             \* aggregation pass: the RowOutcome (None before)
    unique_context_refs,    \* discovery: the module-global set
    refs_lock,              \* discovery: 0 when free, else the holding row
    context_refs,           \* discovery: per row, the list just extracted
    completed               \* discovery: the main thread's counter

vars == <<category_contexts, sessions, df, submitted, pc, retry_total,
          response, future, yielded, all_results, result_df, log, xml, nodes, k, totals, apc,
          result, unique_context_refs, refs_lock, context_refs, completed>>

orchVars == <<sessions, df, submitted, pc, retry_total, response, future,
              yielded, all_results, result_df, log>>
aggVars == <<xml, nodes, k, totals, apc, result>>
refVars == <<unique_context_refs, refs_lock, context_refs, completed>>

None == "None"

\* A future that has not completed, a session.get that has not ended.
Pending == [pending |-> TRUE]
\* The retries left of a row that is not inside session.get.
NoRetry == 0 - 1

-----------------------------------------------------------------------------
(* Bounds of the model *)

NumRows == 3        \* rows of the input table
MaxWorkers == 2     \* max_workers handed to ThreadPoolExecutor
MaxNodes == 2       \* elements of a document in the aggregation runs

-----------------------------------------------------------------------------
(* Category membership table (CATEGORY_CONTEXTS) *)

Categories ==
    {"perf_bank", "perf_promoter", "perf_public", "perf_mf", "perf_FPI",
     "perf_insur"}

\* A cut of the literal lists: one or two context refs per category, pairwise
\* disjoint as in the source.
CATEGORY_CONTEXTS ==
    [cat \in Categories |->
        CASE cat = "perf_bank" -> {"DetailsOfSharesHeldByBanks001I",
                                   "DetailsOfSharesHeldByBanks002I"}
          [] cat = "perf_promoter" ->
                {"DetailsOfSharesHeldByRelativesOfPromotersOtherThanPromoterGroup001I"}
          [] cat = "perf_public" -> {"PublicShareholdingI",
                                     "PublicShareholding_ContextI"}
          [] cat = "perf_mf" -> {"DetailsOfSharesHeldByMutualFundsOrUti001I"}
          [] cat = "perf_FPI" ->
                {"DetailsOfSharesHeldByInstitutionsForeignPortfolioInvestor001I"}
          [] cat = "perf_insur" -> {"DetailsOfSharesHeldByInsuranceCompanies001I"}]

\* category_contexts is a parameter of fetch_data_from_xbrl: a caller may hand
\* over a table in which one context ref sits in several sets.
OverlappingContexts ==
    [CATEGORY_CONTEXTS EXCEPT
        !["perf_public"] = @ \cup {"DetailsOfSharesHeldByBanks001I"},
        !["perf_insur"] = @ \cup {"DetailsOfSharesHeldByBanks001I"}]

Tables == {CATEGORY_CONTEXTS, OverlappingContexts}

-----------------------------------------------------------------------------
(* Documents *)

TargetName == "ShareholdingAsAPercentageOfTotalNumberOfShares"

Node(ns, local, ctx, text) ==
    [ns |-> ns, local |-> local, contextRef |-> ctx, text |-> text]

\* Elements a served document is built from.  contextRef None is a missing
\* attribute; text None is an element without text.
Elements ==
    { Node("in-bse-shp", TargetName, "DetailsOfSharesHeldByBanks001I", "10"),
      Node("", TargetName, "PublicShareholdingI", "3"),
      Node("xbrli", TargetName, "DetailsOfSharesHeldByBanks001I", "3"),
      Node("in-bse-shp", TargetName, "DetailsOfSharesHeldByBanks002I", "-5"),
      Node("in-bse-shp", TargetName, "SomeOtherContextI", "7"),
      Node("in-bse-shp", TargetName, None, "10"),
      Node("in-bse-shp", TargetName, "", "10"),
      Node("in-bse-shp", TargetName, "DetailsOfSharesHeldByBanks001I", None),
      Node("in-bse-shp", TargetName, "DetailsOfSharesHeldByBanks001I", ""),
      Node("in-bse-shp", TargetName, "PublicShareholdingI", "abc"),
      Node("in-bse-shp", "NumberOfShares", "DetailsOfSharesHeldByBanks001I", "10") }

SeqsUpTo(S, n) == UNION {[1..m -> S] : m \in 0..n}

Document(elems) == [wellformed |-> TRUE, elems |-> elems]
Malformed == [wellformed |-> FALSE, elems |-> <<>>]

Documents == {Malformed} \cup {Document(s) : s \in SeqsUpTo(Elements, MaxNodes)}

-----------------------------------------------------------------------------
(* fetch_data_from_xbrl: parse and aggregation *)

\* float(n.text): [ok, val]; ok FALSE is the ValueError.
Float(text) ==
    CASE text = "10" -> [ok |-> TRUE, val |-> 10]
      [] text = "3" -> [ok |-> TRUE, val |-> 3]
      [] text = "7" -> [ok |-> TRUE, val |-> 7]
      [] text = "-5" -> [ok |-> TRUE, val |-> 0 - 5]
      [] OTHER -> [ok |-> FALSE, val |-> 0]

\* Python truthiness of an attribute value or text: None and "" are falsy.
Truthy(s) == s # None /\ s # ""

\* Mutant: the expression names the element with one fixed prefix,
\* //in-bse-shp:ShareholdingAsAPercentageOfTotalNumberOfShares.
RECURSIVE xpathPrefixed(_)
xpathPrefixed(elems) ==
    IF elems = <<>> THEN <<>>
    ELSE LET rest == xpathPrefixed(Tail(elems))
         IN IF Head(elems).local = TargetName /\ Head(elems).ns = "in-bse-shp"
            THEN <<Head(elems)>> \o rest
            ELSE rest

\* root.xpath("//*[local-name()='Shareholding...']"): document order kept.
RECURSIVE xpath(_)
xpath(elems) ==
    IF elems = <<>> THEN <<>>
    ELSE LET rest == xpath(Tail(elems))
         IN IF Head(elems).local = TargetName THEN <<Head(elems)>> \o rest
            ELSE rest

\* Mutant: no zero entries, a key appears only once something is added.
InitTotalsEmpty(cc) == [cat \in {c \in DOMAIN cc : FALSE} |-> 0]

\* totals = {cat: 0.0 for cat in category_contexts}
InitTotals(cc) == [cat \in DOMAIN cc |-> 0]

\* The order in which the dict literal lists the categories.
CategoryOrder ==
    <<"perf_bank", "perf_promoter", "perf_public", "perf_mf", "perf_FPI",
      "perf_insur">>

\* Mutant: "=" for "+=", the value overwrites the running total.
AddToTotalsOverwrite(t, ctx, val, cc) ==
    [cat \in DOMAIN t |-> IF ctx \in cc[cat] THEN val ELSE t[cat]]

\* Mutant: a break after the first matching category.
AddToTotalsFirstMatch(t, ctx, val, cc) ==
    LET hits == {i \in 1..Len(CategoryOrder) : ctx \in cc[CategoryOrder[i]]}
    IN [cat \in DOMAIN t |->
          IF hits # {} /\ cat = CategoryOrder[CHOOSE i \in hits : \A j \in hits : i <= j]
          THEN t[cat] + val ELSE t[cat]]

\* for cat, ctx_set in category_contexts.items(): if ctx in ctx_set: += val
AddToTotals(t, ctx, val, cc) ==
    [cat \in DOMAIN t |-> IF ctx \in cc[cat] THEN t[cat] + val ELSE t[cat]]

\* One iteration of the loop over the matching nodes:
\* [raised, totals]; raised is the ValueError of float(n.text).
ScanNode(t, n, cc) ==
    IF ~Truthy(n.contextRef) \/ ~Truthy(n.text)
    THEN [raised |-> FALSE, totals |-> t]
    ELSE IF ~Float(n.text).ok
         THEN [raised |-> TRUE, totals |-> t]
         ELSE [raised |-> FALSE,
               totals |-> AddToTotals(t, n.contextRef, Float(n.text).val, cc)]

RECURSIVE ScanFrom(_, _, _)
ScanFrom(t, ns, cc) ==
    IF ns = <<>> THEN [raised |-> FALSE, totals |-> t]
    ELSE LET step == ScanNode(t, Head(ns), cc)
         IN IF step.raised THEN step ELSE ScanFrom(step.totals, Tail(ns), cc)

-----------------------------------------------------------------------------
(* The retrying session: get_session_with_retries and session.get *)

RetryTotal == 5     \* Retry(total=5): the number of retries allowed

\* Mutant: 404 put on the list of statuses to retry.
StatusForcelistWith404 == {404, 429, 500, 502, 503, 504}

status_forcelist == {429, 500, 502, 503, 504}

\* urllib3's Retry.RETRY_AFTER_STATUS_CODES; respect_retry_after_header is left
\* at its default (True) by the Retry(...) call.
RETRY_AFTER_STATUS_CODES == {413, 429, 503}

\* What the server can answer to one HTTP attempt.
ConnectionFailure == [kind |-> "connection"]
ConnectTimeoutFailure == [kind |-> "connect_timeout"]
ReadTimeoutFailure == [kind |-> "read_timeout"]
Http(status, retry_after, content) ==
    [kind |-> "http", status |-> status, retry_after |-> retry_after,
     content |-> content]

\* Retry.is_retry for a GET response, and the transport errors Retry.increment
\* lets a GET retry; total is the Retry.total left when the attempt was made.
IsRetry(resp, total) ==
    IF resp.kind # "http" THEN TRUE
    ELSE \/ resp.status \in status_forcelist
         \/ /\ total # 0
            /\ resp.retry_after
            /\ resp.status \in RETRY_AFTER_STATUS_CODES

\* Mutant: the budget is tested before the decrement, one retry too many.
IsExhaustedLate(total) == total < 0

\* Retry.increment followed by is_exhausted: the budget is spent when the
\* decremented total falls below zero.
IsExhausted(total) == total - 1 < 0

\* The requests exception session.get raises once the retries are exhausted
\* (HTTPAdapter.send's mapping of MaxRetryError by its reason).
ExhaustedException(resp) ==
    CASE resp.kind = "http" -> "RetryError"
      [] resp.kind = "connect_timeout" -> "ConnectTimeout"
      [] OTHER -> "ConnectionError"

\* HTTPAdapter(pool_connections=10, pool_maxsize=10)
PoolMaxsize == 10

\* get_session_with_retries(): every call makes a new requests.Session with
\* its own adapter and connection pool; call is the row whose fetch made it.
get_session_with_retries(call) ==
    [call |-> call, total |-> RetryTotal, pool_maxsize |-> PoolMaxsize]

\* What session.get ends with.
GetRaised(exc) == [raised |-> TRUE, exc |-> exc]
GetResponse(resp) ==
    [raised |-> FALSE, status_code |-> resp.status, content |-> resp.content]

\* response.raise_for_status()
RaisesForStatus(status_code) == status_code >= 400 /\ status_code < 600

-----------------------------------------------------------------------------
(* fetch_data_from_xbrl and process_stock_for_context_refs as functions of   *)
(* what session.get ended with                                               *)

\* Mutant: the message is built from str(e) alone, without the type name.
RaiseWithoutType(xbrl_url, type_name) ==
    [raised |-> TRUE, msg |-> <<"Error fetching from", xbrl_url>>]

\* raise Exception(f"Error fetching from {xbrl_url}: {type(e).__name__}: ...")
Raise(xbrl_url, type_name) ==
    [raised |-> TRUE, msg |-> <<"Error fetching from", xbrl_url, type_name>>]
Return(t) == [raised |-> FALSE, totals |-> t]

\* Mutant: "return totals" one level too shallow, before the loop has run.
FetchReturnsBeforeScan(xbrl_url, got, cc) ==
    IF got.raised THEN Raise(xbrl_url, got.exc)
    ELSE IF RaisesForStatus(got.status_code) THEN Raise(xbrl_url, "HTTPError")
    ELSE IF ~got.content.wellformed THEN Raise(xbrl_url, "XMLSyntaxError")
    ELSE Return(InitTotals(cc))

fetch_data_from_xbrl(xbrl_url, got, cc) ==
    IF got.raised THEN Raise(xbrl_url, got.exc)
    ELSE IF RaisesForStatus(got.status_code) THEN Raise(xbrl_url, "HTTPError")
    ELSE IF ~got.content.wellformed THEN Raise(xbrl_url, "XMLSyntaxError")
    ELSE LET scan == ScanFrom(InitTotals(cc), xpath(got.content.elems), cc)
         IN IF scan.raised THEN Raise(xbrl_url, "ValueError")
            ELSE Return(scan.totals)

EmptyDict == [x \in {} |-> 0]

\* Mutant: the success row is built without the totals.
SuccessResultNoData(symbol, data) ==
    [symbol |-> symbol, status |-> "success", data |-> EmptyDict]

SuccessResult(symbol, data) ==
    [symbol |-> symbol, status |-> "success", data |-> data]
\* Mutant: the error row is built without the exception's text.
ErrorResultNoDetail(symbol, e) ==
    [symbol |-> symbol, status |-> "error", error |-> <<>>, data |-> EmptyDict]

ErrorResult(symbol, e) ==
    [symbol |-> symbol, status |-> "error", error |-> e, data |-> EmptyDict]

\* The content of a finished future: a returned value or a raised exception.
Returned(value) == [exception |-> FALSE, value |-> value]
Raised(e) == [exception |-> TRUE, value |-> e]

\* Mutant: no except clause, the exception leaves the worker function.
OutcomeUncaught(symbol, fetched) ==
    IF fetched.raised THEN Raised(fetched.msg)
    ELSE Returned(SuccessResult(symbol, fetched.totals))

\* The try/except of process_stock_for_context_refs around the call.
Outcome(symbol, fetched) ==
    IF fetched.raised THEN Returned(ErrorResult(symbol, fetched.msg))
    ELSE Returned(SuccessResult(symbol, fetched.totals))

process_stock_for_context_refs(row, got, cc) ==
    Outcome(row.symbol, fetch_data_from_xbrl(row.xbrl, got, cc))

-----------------------------------------------------------------------------
(* The aggregation pass, one loop iteration per step: the body of            *)
(* fetch_data_from_xbrl after the response arrived, called by                *)
(* process_stock_for_context_refs for one row                                *)

\* A row of the input table: one filing, with the columns the program and the
\* claims refer to (symbol, date, xbrl).
Filing(symbol, date, i) ==
    [symbol |-> symbol, date |-> date, xbrl |-> <<"https://nsearchives/xbrl", i>>]

Row(i) == Filing(<<"SYM", i>>, <<"31-MAR", 2018 + i>>, i)

IdleOrch ==
    /\ df = <<Row(1)>>
    /\ sessions = {}
    /\ submitted = 0
    /\ pc = <<"queued">>
    /\ retry_total = <<NoRetry>>
    /\ response = <<Pending>>
    /\ future = <<Pending>>
    /\ yielded = {}
    /\ all_results = <<>>
    /\ result_df = <<>>
    /\ log = <<>>

\* extract_context_refs.py not running: the set as the module creates it.
IdleRefs ==
    /\ unique_context_refs = {}
    /\ refs_lock = 0
    /\ context_refs = <<>>
    /\ completed = 0

IdleAgg ==
    /\ xml = None
    /\ nodes = <<>>
    /\ k = 0
    /\ totals = None
    /\ apc = "idle"
    /\ result = None

InitAgg ==
    /\ category_contexts \in Tables
    /\ IdleOrch
    /\ IdleRefs
    /\ xml \in Documents
    /\ nodes = <<>>
    /\ k = 0
    /\ totals = None
    /\ apc = "parse"
    /\ result = None

\* root = etree.fromstring(xml); totals = {...}; the xpath selection.
Parse ==
    /\ apc = "parse"
    /\ IF xml.wellformed
       THEN /\ totals' = InitTotals(category_contexts)
            /\ nodes' = xpath(xml.elems)
            /\ k' = 1
            /\ apc' = "loop"
            /\ UNCHANGED result
       ELSE /\ result' = Outcome(df[1].symbol, Raise(df[1].xbrl, "XMLSyntaxError"))
            /\ apc' = "done"
            /\ UNCHANGED <<totals, nodes, k>>
    /\ UNCHANGED <<category_contexts, xml>>
    /\ UNCHANGED <<orchVars, refVars>>

\* One iteration of "for n in root.xpath(...)".
ScanStep ==
    /\ apc = "loop"
    /\ k <= Len(nodes)
    /\ LET step == ScanNode(totals, nodes[k], category_contexts)
       IN IF step.raised
          THEN /\ result' = Outcome(df[1].symbol, Raise(df[1].xbrl, "ValueError"))
               /\ apc' = "done"
               /\ UNCHANGED <<totals, k>>
          ELSE /\ totals' = step.totals
               /\ k' = k + 1
               /\ UNCHANGED <<result, apc>>
    /\ UNCHANGED <<category_contexts, xml, nodes>>
    /\ UNCHANGED <<orchVars, refVars>>

\* return totals, and the success branch of the caller.
ReturnTotals ==
    /\ apc = "loop"
    /\ k > Len(nodes)
    /\ result' = Outcome(df[1].symbol, Return(totals))
    /\ apc' = "done"
    /\ UNCHANGED <<category_contexts, xml, nodes, k, totals>>
    /\ UNCHANGED <<orchVars, refVars>>

NextAgg == Parse \/ ScanStep \/ ReturnTotals

SpecAgg == InitAgg /\ [][NextAgg]_vars

-----------------------------------------------------------------------------
(* The orchestrator: fetch_data_by_context_refs (and the same loop under     *)
(* __main__) over a ThreadPoolExecutor                                       *)

BankDoc ==
    Document(<<Node("in-bse-shp", TargetName,
                    "DetailsOfSharesHeldByBanks001I", "10")>>)
MixedDoc ==
    Document(<<Node("", TargetName, "PublicShareholdingI", "3"),
               Node("in-bse-shp", TargetName,
                    "DetailsOfSharesHeldByBanks002I", "-5")>>)

\* A filing with one element per category, each with the text v (the context
\* ref is the first of the category's list), beside an element of another name.
SixDoc(v) ==
    Document(<<Node("in-bse-shp", TargetName,
                    "DetailsOfSharesHeldByBanks001I", v),
               Node("in-bse-shp", TargetName,
                    "DetailsOfSharesHeldByRelativesOfPromotersOtherThanPromoterGroup001I", v),
               Node("in-bse-shp", TargetName, "PublicShareholdingI", v),
               Node("in-bse-shp", TargetName,
                    "DetailsOfSharesHeldByMutualFundsOrUti001I", v),
               Node("in-bse-shp", TargetName, "DetailsOfSharesHeldByInstitutionsForeignPortfolioInvestor001I", v),
               Node("in-bse-shp", TargetName, "DetailsOfSharesHeldByInsuranceCompanies001I", v),
               Node("in-bse-shp", "NumberOfShares",
                    "DetailsOfSharesHeldByBanks001I", v)>>)

\* What the remote server answers in the orchestrator runs.
ServerResponses ==
    {ConnectionFailure, Http(503, FALSE, Malformed), Http(404, FALSE, Malformed)}
    \cup {Http(200, FALSE, d) : d \in {BankDoc, MixedDoc, Malformed}}

Rows == DOMAIN df
Running == {r \in Rows : pc[r] = "running"}

\* df = pd.read_csv(csv_path) gave table; nothing is submitted yet.
InitTable(table) ==
    /\ df = table
    /\ sessions = {}
    /\ submitted = 0
    /\ pc = [i \in DOMAIN table |-> "queued"]
    /\ retry_total = [i \in DOMAIN table |-> NoRetry]
    /\ response = [i \in DOMAIN table |-> Pending]
    /\ future = [i \in DOMAIN table |-> Pending]
    /\ yielded = {}
    /\ all_results = <<>>
    /\ result_df = <<>>
    /\ log = <<>>
    /\ IdleAgg

InitRun(n) == InitTable([i \in 1..n |-> Row(i)]) /\ IdleRefs

Init ==
    /\ category_contexts = CATEGORY_CONTEXTS
    /\ InitRun(NumRows)

\* futures = [executor.submit(process_stock_for_context_refs, task) ...]:
\* the main thread hands over the tasks one by one, in table order.
Submit ==
    /\ submitted < Len(df)
    /\ submitted' = submitted + 1
    /\ UNCHANGED <<category_contexts, sessions, df, pc, retry_total, response,
                   future, yielded, all_results, result_df, log>>
    /\ UNCHANGED <<aggVars, refVars>>

\* Mutant: a thread per task, no bound on the pool.
WorkerAlwaysAvailable == TRUE

\* Mutant: the pool's threads never take a task.
WorkerNeverAvailable == FALSE

\* ThreadPoolExecutor(max_workers=...): a task leaves the queue only when one
\* of the pool's threads is free.
WorkerAvailable == Cardinality(Running) < MaxWorkers

\* A pool thread takes the oldest queued task (the work queue is FIFO) and
\* enters process_stock_for_context_refs: the sleep, then the session with a
\* fresh Retry(total=5).
Start(r) ==
    /\ r <= submitted
    /\ pc[r] = "queued"
    /\ \A q \in Rows : q < r => pc[q] # "queued"
    /\ WorkerAvailable
    /\ pc' = [pc EXCEPT ![r] = "running"]
    /\ retry_total' = [retry_total EXCEPT ![r] = RetryTotal]
    /\ sessions' = sessions \cup {get_session_with_retries(r)}
    /\ UNCHANGED <<category_contexts, df, submitted, response, future, yielded,
                   all_results, result_df, log>>
    /\ UNCHANGED <<aggVars, refVars>>

\* Mutant: totals is one module-level dict that no call resets, so a row's
\* result holds what the rows finished before it have added.
AttemptSharedTotals(r, resp) ==
    /\ pc[r] = "running"
    /\ LET total == retry_total[r]
           earlier == {q \in Rows : pc[q] = "done" /\ future[q].value.status = "success"}
           Carry[S \in SUBSET Rows] ==
               IF S = {} THEN [cat \in Categories |-> 0]
               ELSE LET q == CHOOSE x \in S : TRUE
                    IN [cat \in Categories |->
                          Carry[S \ {q}][cat]
                          + ScanFrom(InitTotals(category_contexts),
                                     xpath(response[q].content.elems),
                                     category_contexts).totals[cat]]
       IN IF IsRetry(resp, total) /\ ~IsExhausted(total)
          THEN /\ retry_total' = [retry_total EXCEPT ![r] = total - 1]
               /\ UNCHANGED <<pc, response, future>>
          ELSE LET got == IF IsRetry(resp, total)
                          THEN GetRaised(ExhaustedException(resp))
                          ELSE GetResponse(resp)
                   own == process_stock_for_context_refs(df[r], got,
                                                         category_contexts)
               IN /\ response' = [response EXCEPT ![r] = got]
                  /\ future' = [future EXCEPT ![r] =
                        IF own.value.status = "success"
                        THEN Returned(SuccessResult(df[r].symbol,
                                [cat \in Categories |->
                                    own.value.data[cat] + Carry[earlier][cat]]))
                        ELSE own]
                  /\ pc' = [pc EXCEPT ![r] = "done"]
                  /\ retry_total' = [retry_total EXCEPT ![r] = NoRetry]
    /\ UNCHANGED <<category_contexts, sessions, df, submitted, yielded,
                   all_results, result_df>>
    /\ UNCHANGED <<aggVars, refVars>>

\* One HTTP attempt of session.get for row r, answered by resp.  A retryable
\* failure within the budget leaves the row in flight; anything else ends
\* session.get, and the rest of process_stock_for_context_refs (parse,
\* aggregation, try/except) runs to the return that completes the future.
Attempt(r, resp) ==
    /\ pc[r] = "running"
    /\ LET total == retry_total[r]
       IN IF IsRetry(resp, total) /\ ~IsExhausted(total)
          THEN /\ UNCHANGED pc
               /\ retry_total' = [retry_total EXCEPT ![r] = total - 1]
               /\ UNCHANGED <<response, future>>
          ELSE LET got == IF IsRetry(resp, total)
                          THEN GetRaised(ExhaustedException(resp))
                          ELSE GetResponse(resp)
               IN /\ pc' = [pc EXCEPT ![r] = "done"]
                  /\ retry_total' = [retry_total EXCEPT ![r] = NoRetry]
                  /\ response' = [response EXCEPT ![r] = got]
                  /\ future' = [future EXCEPT ![r] =
                        process_stock_for_context_refs(df[r], got,
                                                       category_contexts)]
    /\ UNCHANGED <<category_contexts, sessions, df, submitted, yielded,
                   all_results, result_df>>
    /\ UNCHANGED <<aggVars, refVars>>

HttpAttempt(r) ==
    \E resp \in ServerResponses : Attempt(r, resp) /\ UNCHANGED log

\* Mutant: the results are taken in submission order only; a future that
\* completed ahead of an earlier one is consumed without being appended.
CollectInOrderOnly(r) ==
    /\ submitted = Len(df)
    /\ pc[r] = "done"
    /\ r \notin yielded
    /\ yielded' = yielded \cup {r}
    /\ all_results' = IF future[r].exception \/ (\E q \in Rows \ yielded : q < r)
                      THEN all_results
                      ELSE Append(all_results, future[r].value)
    /\ UNCHANGED <<category_contexts, sessions, df, submitted, pc,
                   retry_total, response, future, result_df, log>>
    /\ UNCHANGED <<aggVars, refVars>>

\* One turn of "for future in as_completed(futures)": future.result() either
\* returns the worker's value, which is appended, or re-raises the worker's
\* exception, which the loop's except clause prints and drops.
Collect(r) ==
    /\ submitted = Len(df)
    /\ pc[r] = "done"
    /\ r \notin yielded
    /\ yielded' = yielded \cup {r}
    /\ all_results' = IF future[r].exception THEN all_results
                      ELSE Append(all_results, future[r].value)
    /\ UNCHANGED <<category_contexts, sessions, df, submitted, pc,
                   retry_total, response, future, result_df, log>>
    /\ UNCHANGED <<aggVars, refVars>>

\* A cell of a DataFrame: a value, or NaN where the row's dict had no such key.
Cell(v) == [isna |-> FALSE, value |-> v]
NaN == [isna |-> TRUE]

\* The dict built for one collected result (lines 168-173).
ResultRow(res) ==
    LET row == [symbol |-> res.symbol, status |-> res.status]
    IN IF res.status = "success" THEN res.data @@ row
       ELSE [error |-> res.error] @@ row

\* Mutant: only the keys common to all dicts become columns.
DataFrameCommonColumns(result_data) ==
    LET columns == {c \in UNION {DOMAIN result_data[i] : i \in DOMAIN result_data} :
                        \A i \in DOMAIN result_data : c \in DOMAIN result_data[i]}
    IN [columns |-> columns,
        rows |-> [i \in DOMAIN result_data |->
                    [c \in columns |-> Cell(result_data[i][c])]]]

\* pd.DataFrame(list of dicts): one row per dict, the columns are the union of
\* the keys, NaN where a dict lacks the key.
DataFrame(result_data) ==
    LET columns == UNION {DOMAIN result_data[i] : i \in DOMAIN result_data}
    IN [columns |-> columns,
        rows |-> [i \in DOMAIN result_data |->
                    [c \in columns |->
                        IF c \in DOMAIN result_data[i]
                        THEN Cell(result_data[i][c]) ELSE NaN]]]

\* After the executor block: result_data from all_results, then the table.
BuildTable ==
    /\ submitted = Len(df)
    /\ yielded = Rows
    /\ result_df = <<>>
    /\ result_df' = <<DataFrame([i \in DOMAIN all_results |->
                                    ResultRow(all_results[i])])>>
    /\ UNCHANGED <<category_contexts, sessions, df, submitted, pc,
                   retry_total, response, future, yielded, all_results, log>>
    /\ UNCHANGED <<aggVars, refVars>>

Next ==
    \/ Submit
    \/ \E r \in Rows : Start(r)
    \/ \E r \in Rows : HttpAttempt(r)
    \/ \E r \in Rows : Collect(r)
    \/ BuildTable

Spec == Init /\ [][Next]_vars

\* The run under fair scheduling: the main thread keeps running, a pool
\* thread that can take a task does so, and a request that has been sent is
\* answered or fails (session.get is called with timeout=60).
Fairness ==
    /\ WF_vars(Submit)
    /\ \A r \in 1..NumRows : WF_vars(Start(r))
    /\ \A r \in 1..NumRows : WF_vars(HttpAttempt(r))
    /\ \A r \in 1..NumRows : WF_vars(Collect(r))
    /\ WF_vars(BuildTable)

SpecLive == Spec /\ Fairness

\* A run over a table that holds two filings of one company, as the table
\* written by nse_xbr.py does (every quarter's filing from 2018 to 2026).
InitDup ==
    /\ category_contexts = CATEGORY_CONTEXTS
    /\ InitTable(<<Filing(<<"SYM", 1>>, <<"31-MAR", 2019>>, 1),
                   Filing(<<"SYM", 1>>, <<"30-JUN", 2019>>, 2)>>)
    /\ IdleRefs

SpecDup == InitDup /\ [][Next]_vars

\* A run that was handed an empty category table: context_refs = {}.
InitEmptyTable ==
    /\ category_contexts = EmptyDict
    /\ InitRun(2)

SpecEmptyTable == InitEmptyTable /\ [][Next]_vars

-----------------------------------------------------------------------------
(* One fetch under observation: a run over a one-row table in which every    *)
(* HTTP exchange of the row's session.get is written to log                  *)

ErrorPage == Malformed

\* What the remote server answers in the observed fetch: transport failures,
\* error statuses with and without a Retry-After header, and 200 with a body.
FetchResponses ==
    {ConnectionFailure, ConnectTimeoutFailure, ReadTimeoutFailure,
     Http(503, FALSE, ErrorPage), Http(404, FALSE, ErrorPage),
     Http(413, FALSE, ErrorPage), Http(413, TRUE, ErrorPage)}
    \cup {Http(200, FALSE, d) :
            d \in {BankDoc, Document(<<>>), Malformed, SixDoc("10"), SixDoc("7")}}

InitFetch ==
    /\ category_contexts = CATEGORY_CONTEXTS
    /\ InitRun(1)

\* Retry(backoff_factor=2)
BackoffFactor == 2

\* 2 ** n
RECURSIVE Pow2(_)
Pow2(n) == IF n = 0 THEN 1 ELSE 2 * Pow2(n - 1)

\* Retry.get_backoff_time after consecutive_errors failed attempts: nothing
\* after the first, then backoff_factor * 2 ** (consecutive_errors - 1),
\* at most the library's maximum of 120 seconds.
get_backoff_time(consecutive_errors) ==
    IF consecutive_errors <= 1 THEN 0
    ELSE LET backoff_value == BackoffFactor * Pow2(consecutive_errors - 1)
         IN IF backoff_value < 120 THEN backoff_value ELSE 120

\* Retry.sleep before the next attempt, history being the exchanges so far:
\* the time a Retry-After header of the last response names, else the
\* backoff time.  No wait precedes the first attempt.
Slept(history) ==
    IF history = <<>> THEN [source |-> "first"]
    ELSE LET last == history[Len(history)]
         IN IF last.kind = "http" /\ last.retry_after
            THEN [source |-> "retry_after"]
            ELSE [source |-> "backoff",
                  seconds |-> get_backoff_time(Len(history))]

\* An attempt as the observer writes it down: the wait that preceded it and
\* the answer.
ObservedAttempt(r) ==
    \E resp \in FetchResponses :
        /\ Attempt(r, resp)
        /\ log' = Append(log, [slept |-> Slept(log)] @@ resp)

NextFetch ==
    \/ Submit
    \/ \E r \in Rows : Start(r)
    \/ \E r \in Rows : ObservedAttempt(r)
    \/ \E r \in Rows : Collect(r)

SpecFetch == InitFetch /\ [][NextFetch]_vars

-----------------------------------------------------------------------------
(* Context-ref discovery: extract_shareholding_pct (xbr_data_extract.py) and *)
(* the run of extract_all_context_refs (extract_context_refs.py)             *)

\* The context refs of the documents, in the order sorted() gives strings.
SortedContexts ==
    <<"DetailsOfSharesHeldByBanks001I",
      "DetailsOfSharesHeldByBanks002I",
      "DetailsOfSharesHeldByInstitutionsForeignPortfolioInvestor001I",
      "DetailsOfSharesHeldByInsuranceCompanies001I",
      "DetailsOfSharesHeldByMutualFundsOrUti001I",
      "DetailsOfSharesHeldByRelativesOfPromotersOtherThanPromoterGroup001I",
      "PublicShareholdingI",
      "PublicShareholding_ContextI",
      "SomeOtherContextI">>

\* sorted(list(context_refs))
sorted(S) == SelectSeq(SortedContexts, LAMBDA c : c \in S)

\* Mutant: the guard of the aggregation loop, "if not ctx or not n.text".
ContextRefsOfWithText(elems) ==
    {xpath(elems)[i].contextRef : i \in {j \in 1..Len(xpath(elems)) :
                                            /\ Truthy(xpath(elems)[j].contextRef)
                                            /\ Truthy(xpath(elems)[j].text)}}

\* The loop of lines 62-67: the contextRef of every selected element that
\* has a non-empty one.
ContextRefsOf(elems) ==
    {xpath(elems)[i].contextRef : i \in {j \in 1..Len(xpath(elems)) :
                                            Truthy(xpath(elems)[j].contextRef)}}

\* requests' exception classes: ConnectTimeout derives from both.
IsConnectionError(exc) == exc \in {"ConnectionError", "ConnectTimeout"}
IsTimeout(exc) == exc \in {"Timeout", "ConnectTimeout", "ReadTimeout"}

\* raise Exception(f"..."): all three handlers raise a plain Exception.
RaiseException(prefix, type_name) ==
    [raised |-> TRUE, type |-> "Exception", msg |-> <<prefix, type_name>>]

\* extract_shareholding_pct as a function of what session.get ended with.
extract_shareholding_pct(got) ==
    IF got.raised
    THEN IF IsConnectionError(got.exc)
         THEN RaiseException("Connection error", got.exc)
         ELSE IF IsTimeout(got.exc)
         THEN RaiseException("Timeout error", got.exc)
         ELSE RaiseException("Error parsing XBRL", got.exc)
    ELSE IF RaisesForStatus(got.status_code)
    THEN RaiseException("Error parsing XBRL", "HTTPError")
    ELSE IF ~got.content.wellformed
    THEN RaiseException("Error parsing XBRL", "XMLSyntaxError")
    ELSE [raised |-> FALSE, refs |-> sorted(ContextRefsOf(got.content.elems))]

\* One call of extract_shareholding_pct on a served document.
ExtractCall ==
    /\ apc = "parse"
    /\ result' = extract_shareholding_pct(GetResponse(Http(200, FALSE, xml)))
    /\ apc' = "extracted"
    /\ UNCHANGED <<category_contexts, xml, nodes, k, totals>>
    /\ UNCHANGED <<orchVars, refVars>>

SpecExtract == InitAgg /\ [][ExtractCall]_vars

\* What session.get ends with in the discovery runs, retries included.
GetResults ==
    {GetRaised("ConnectionError"), GetRaised("ConnectTimeout"),
     GetRaised("RetryError"),
     GetResponse(Http(404, FALSE, ErrorPage))}
    \cup {GetResponse(Http(200, FALSE, d)) : d \in {BankDoc, MixedDoc, Malformed}}

\* Rows whose process_single_xbrl occupies a pool thread.
InXbrl == {r \in Rows : pc[r] \in {"running", "extracted", "locked", "updated"}}

InitRefs ==
    /\ category_contexts = CATEGORY_CONTEXTS
    /\ InitTable([i \in 1..NumRows |-> Row(i)])
    /\ unique_context_refs = {}
    /\ refs_lock = 0
    /\ context_refs = [i \in 1..NumRows |-> None]
    /\ completed = 0

\* A pool thread takes the oldest queued task and enters process_single_xbrl.
StartXbrl(r) ==
    /\ r <= submitted
    /\ pc[r] = "queued"
    /\ \A q \in Rows : q < r => pc[q] # "queued"
    /\ Cardinality(InXbrl) < MaxWorkers
    /\ pc' = [pc EXCEPT ![r] = "running"]
    /\ UNCHANGED <<category_contexts, sessions, df, submitted, retry_total,
                   response, future, yielded, all_results, result_df, log>>
    /\ UNCHANGED <<aggVars, refVars>>

\* context_refs = extract_shareholding_pct(xbrl_url); an exception is caught
\* by the function's except clause, which returns 0.
ExtractRefs(r) ==
    /\ pc[r] = "running"
    /\ \E got \in GetResults :
          LET res == extract_shareholding_pct(got)
          IN /\ response' = [response EXCEPT ![r] = got]
             /\ IF res.raised
                THEN /\ pc' = [pc EXCEPT ![r] = "done"]
                     /\ future' = [future EXCEPT ![r] = Returned(0)]
                     /\ UNCHANGED context_refs
                ELSE /\ pc' = [pc EXCEPT ![r] = "extracted"]
                     /\ context_refs' = [context_refs EXCEPT ![r] = res.refs]
                     /\ UNCHANGED future
    /\ sessions' = sessions \cup {get_session_with_retries(r)}
    /\ UNCHANGED <<category_contexts, df, submitted, retry_total, yielded,
                   all_results, result_df, log>>
    /\ UNCHANGED <<unique_context_refs, refs_lock, completed>>
    /\ UNCHANGED aggVars

\* Mutant: the update is made without "with refs_lock".
LockAlwaysFree == TRUE

\* threading.Lock: acquire blocks while another thread holds the lock.
LockFree == refs_lock = 0

\* with refs_lock: (entry)
Acquire(r) ==
    /\ pc[r] = "extracted"
    /\ LockFree
    /\ refs_lock' = r
    /\ pc' = [pc EXCEPT ![r] = "locked"]
    /\ UNCHANGED <<category_contexts, sessions, df, submitted, retry_total,
                   response, future, yielded, all_results, result_df, log>>
    /\ UNCHANGED <<unique_context_refs, context_refs, completed>>
    /\ UNCHANGED aggVars

\* unique_context_refs.update(context_refs)
Update(r) ==
    /\ pc[r] = "locked"
    /\ unique_context_refs' =
          unique_context_refs \cup {context_refs[r][i] : i \in DOMAIN context_refs[r]}
    /\ pc' = [pc EXCEPT ![r] = "updated"]
    /\ UNCHANGED <<category_contexts, sessions, df, submitted, retry_total,
                   response, future, yielded, all_results, result_df, log>>
    /\ UNCHANGED <<refs_lock, context_refs, completed>>
    /\ UNCHANGED aggVars

\* with refs_lock: (exit), then return len(context_refs).
Release(r) ==
    /\ pc[r] = "updated"
    /\ refs_lock' = 0
    /\ future' = [future EXCEPT ![r] = Returned(Len(context_refs[r]))]
    /\ context_refs' = [context_refs EXCEPT ![r] = None]
    /\ pc' = [pc EXCEPT ![r] = "done"]
    /\ UNCHANGED <<category_contexts, sessions, df, submitted, retry_total,
                   response, yielded, all_results, result_df, log>>
    /\ UNCHANGED <<unique_context_refs, completed>>
    /\ UNCHANGED aggVars

\* One turn of the main thread's loop: future.result(); completed += 1.
CountCompleted(r) ==
    /\ submitted = Len(df)
    /\ pc[r] = "done"
    /\ r \notin yielded
    /\ yielded' = yielded \cup {r}
    /\ completed' = completed + 1
    /\ UNCHANGED <<category_contexts, sessions, df, submitted, pc,
                   retry_total, response, future, all_results, result_df,
                   log>>
    /\ UNCHANGED <<unique_context_refs, refs_lock, context_refs>>
    /\ UNCHANGED aggVars

NextRefs ==
    \/ Submit
    \/ \E r \in Rows : StartXbrl(r)
    \/ \E r \in Rows : ExtractRefs(r)
    \/ \E r \in Rows : Acquire(r)
    \/ \E r \in Rows : Update(r)
    \/ \E r \in Rows : Release(r)
    \/ \E r \in Rows : CountCompleted(r)

SpecRefs == InitRefs /\ [][NextRefs]_vars

\* The call has gone through its as_completed loop: it prints the count,
\* writes the sorted set to the output file and returns the set.
CallOver == submitted = Len(df) /\ yielded = Rows

\* A second call of extract_all_context_refs in the same process, on another
\* table of one row: the locals of the call are new, the module-global set
\* and lock are the ones the first call left.
CallAgain ==
    /\ CallOver
    /\ Len(df) = NumRows
    /\ df' = <<Row(NumRows + 1)>>
    /\ submitted' = 0
    /\ pc' = <<"queued">>
    /\ response' = <<Pending>>
    /\ future' = <<Pending>>
    /\ context_refs' = <<None>>
    /\ yielded' = {}
    /\ completed' = 0
    /\ UNCHANGED <<category_contexts, sessions, retry_total, all_results,
                   result_df, log>>
    /\ UNCHANGED <<unique_context_refs, refs_lock>>
    /\ UNCHANGED aggVars

NextRefsTwice == NextRefs \/ CallAgain

SpecRefsTwice == InitRefs /\ [][NextRefsTwice]_vars

-----------------------------------------------------------------------------
(* Context-ref discovery per record: process_single_record and the run of    *)
(* process_nse_xbr_data (process_xbr.py)                                     *)

\* A Python string is a sequence of tokens.  str(records) of a list of
\* strings: the bracket, the quoted items, the bracket.
Str(records) == <<"[">> \o records \o <<"]">>

Record(symbol, refs_str, num) ==
    [symbol |-> symbol, context_refs |-> refs_str, num_categories |-> num]

\* process_single_record as a function of what session.get ended with: the
\* except clauses are tried in their order on the exception that
\* extract_shareholding_pct raised.
process_single_record(row, got) ==
    LET res == extract_shareholding_pct(got)
    IN IF ~res.raised
       THEN Record(row.symbol, Str(res.refs), Len(res.refs))
       ELSE IF IsConnectionError(res.type)
       THEN Record(row.symbol, <<"CONNECTION_ERROR">>, 0 - 1)
       ELSE IF IsTimeout(res.type)
       THEN Record(row.symbol, <<"TIMEOUT">>, 0 - 1)
       ELSE Record(row.symbol, <<res.type>>, 0)

InitXbr ==
    /\ category_contexts = CATEGORY_CONTEXTS
    /\ InitRun(NumRows)

\* The body of process_single_record for row r, from the call of
\* extract_shareholding_pct to "return result".
ProcessRecord(r) ==
    /\ pc[r] = "running"
    /\ \E got \in GetResults :
          /\ response' = [response EXCEPT ![r] = got]
          /\ future' = [future EXCEPT ![r] =
                Returned(process_single_record(df[r], got))]
    /\ sessions' = sessions \cup {get_session_with_retries(r)}
    /\ pc' = [pc EXCEPT ![r] = "done"]
    /\ UNCHANGED <<category_contexts, df, submitted, retry_total, yielded,
                   all_results, result_df, log>>
    /\ UNCHANGED <<aggVars, refVars>>

\* One row of df_indexed.join(shareholding_df): the columns of the left row
\* and, beside the index, those of the right row.
JoinedRow(left_row, right_row) ==
    [c \in DOMAIN left_row \cup (DOMAIN right_row \ {"symbol"}) |->
        IF c \in DOMAIN left_row THEN Cell(left_row[c]) ELSE right_row[c]]

\* The left row where no right row has its symbol: NaN in the right columns.
UnmatchedRow(left_row, right_columns) ==
    [c \in DOMAIN left_row \cup (right_columns \ {"symbol"}) |->
        IF c \in DOMAIN left_row THEN Cell(left_row[c]) ELSE NaN]

\* df.set_index('symbol').join(shareholding_df.set_index('symbol')): a left
\* join on the index.  The left rows keep their order; each gives one row
\* for every right row with the same symbol, in the right table's order.
RECURSIVE Join(_, _)
Join(left, right) ==
    IF left = <<>> THEN <<>>
    ELSE LET l == Head(left)
             hits == SelectSeq(right.rows,
                               LAMBDA x : x["symbol"] = Cell(l.symbol))
         IN (IF hits = <<>> THEN <<UnmatchedRow(l, right.columns)>>
             ELSE [j \in 1..Len(hits) |-> JoinedRow(l, hits[j])])
            \o Join(Tail(left), right)

\* Mutant: the text is taken as the list, without parsing.
LiteralEvalUnparsed(str) == [ok |-> TRUE, islist |-> TRUE, val |-> str]

\* ast.literal_eval of a string: a bracketed text is a list literal and
\* gives the list of its items; a bare word is no literal (ValueError).
LiteralEval(str) ==
    IF Len(str) >= 2 /\ str[1] = "[" /\ str[Len(str)] = "]"
    THEN [ok |-> TRUE, islist |-> TRUE, val |-> SubSeq(str, 2, Len(str) - 1)]
    ELSE [ok |-> FALSE, islist |-> FALSE, val |-> <<>>]

\* What one entry of shareholding_df['context_refs'] adds to the set
\* (lines 153-163): nothing for an empty string or one of the two markers,
\* nothing when literal_eval raises or gives no list.
RefsIn(ctx_str) ==
    IF ctx_str = <<>> \/ ctx_str \in {<<"CONNECTION_ERROR">>, <<"TIMEOUT">>}
    THEN {}
    ELSE LET ctx_list == LiteralEval(ctx_str)
         IN IF ctx_list.ok /\ ctx_list.islist
            THEN {ctx_list.val[i] : i \in DOMAIN ctx_list.val}
            ELSE {}

\* After the executor block of process_nse_xbr_data: the table of results,
\* the merge onto the input table, and the set of unique context refs.
Merge ==
    /\ submitted = Len(df)
    /\ yielded = Rows
    /\ result_df = <<>>
    /\ LET shareholding_df == DataFrame(all_results)
       IN /\ result_df' =
                <<[columns |-> DOMAIN df[1] \cup shareholding_df.columns,
                   rows |-> Join(df, shareholding_df)]>>
          /\ unique_context_refs' =
                UNION {RefsIn(all_results[i].context_refs) :
                          i \in DOMAIN all_results}
    /\ UNCHANGED <<category_contexts, sessions, df, submitted, pc, retry_total,
                   response, future, yielded, all_results, log>>
    /\ UNCHANGED <<refs_lock, context_refs, completed>>
    /\ UNCHANGED aggVars

\* process_nse_xbr_data: the same submit and as_completed loop, appending to
\* the list of results, then the merge.
NextXbr ==
    \/ Submit
    \/ \E r \in Rows : StartXbrl(r)
    \/ \E r \in Rows : ProcessRecord(r)
    \/ \E r \in Rows : Collect(r)
    \/ Merge

SpecXbr == InitXbr /\ [][NextXbr]_vars

\* The run over a table that holds two filings of one company.
SpecXbrDup == InitDup /\ [][NextXbr]_vars

-----------------------------------------------------------------------------
(* What the claims refer to *)

Done == submitted = Len(df) /\ yielded = Rows

\* The outcomes collected so far that carry row r's symbol.
OutcomesOf(r) ==
    {i \in 1..Len(all_results) : all_results[i].symbol = df[r].symbol}

\* A matching element that yields a datum: a context ref, a text, a number.
IsDatum(n) == Truthy(n.contextRef) /\ Truthy(n.text) /\ Float(n.text).ok

\* The sum, over the matching elements of a document that yield a datum and
\* whose context ref is in ctx_set, of their values.
RECURSIVE SumOfValid(_, _)
SumOfValid(elems, ctx_set) ==
    IF elems = <<>> THEN 0
    ELSE LET n == Head(elems)
         IN (IF n.local = TargetName /\ IsDatum(n) /\ n.contextRef \in ctx_set
             THEN Float(n.text).val ELSE 0)
            + SumOfValid(Tail(elems), ctx_set)

ExpectedTotals(doc, cc) ==
    [cat \in Categories |-> SumOfValid(doc.elems, cc[cat])]

\* session.get ended with a 2xx/3xx response whose body is well-formed XML.
Fetched(got) ==
    ~got.raised /\ got.status_code < 400 /\ got.content.wellformed

\* session.get raised, or returned an error status, or a malformed body.
PipelineFailed(got) == ~Fetched(got)

-----------------------------------------------------------------------------
\* C1: an orchestrator run over N rows collects exactly N outcomes: every
\* collecting turn appended one outcome, and when the loop has ended each
\* input row has exactly one outcome in all_results, under every interleaving.
C1_ExactlyOneOutcomePerRow ==
    /\ Len(all_results) = Cardinality(yielded)
    /\ \A r \in yielded : Cardinality(OutcomesOf(r)) = 1
    /\ \A r \in Rows \ yielded : OutcomesOf(r) = {}
    /\ Done => Len(all_results) = Len(df)

\* A finished run in which a failed row and successful rows were all collected.
C1_Witness ==
    /\ Done
    /\ Len(all_results) = NumRows
    /\ \E i, j \in 1..Len(all_results) :
          all_results[i].status = "error" /\ all_results[j].status = "success"

\* C2: a row whose pipeline failed (fetch error or malformed XML) ends as an
\* 'error' outcome with a populated error detail; every row whose document
\* arrived ends 'success' with the totals of its own document, whatever
\* happened to the other rows; and a failure never stops the run: as long as
\* rows remain uncollected the run can still take a step.
C2_FailureIsolation ==
    /\ \A r \in Rows : pc[r] = "done" =>
          /\ ~future[r].exception
          /\ future[r].value.symbol = df[r].symbol
          /\ PipelineFailed(response[r]) =>
                /\ future[r].value.status = "error"
                /\ Len(future[r].value.error) > 0
                /\ future[r].value.data = EmptyDict
          /\ Fetched(response[r]) =>
                /\ future[r].value.status = "success"
                /\ future[r].value.data =
                      ExpectedTotals(response[r].content, category_contexts)
    /\ (\E r \in Rows : pc[r] = "done" /\ PipelineFailed(response[r]))
          => (Done \/ ENABLED Next)

\* Row 2 failed while rows 1 and 3 were in flight or queued, and the run ended
\* with row 2 'error' and the others 'success' with non-zero totals.
C2_Witness ==
    /\ Done
    /\ PipelineFailed(response[2])
    /\ future[2].value.status = "error"
    /\ \A r \in Rows \ {2} :
          /\ Fetched(response[r])
          /\ future[r].value.status = "success"
          /\ future[r].value.data["perf_bank"] # 0

\* C3: at most max_workers row pipelines are in flight at any time.
C3_InFlightBounded == Cardinality(Running) <= MaxWorkers

\* The pool is saturated while a submitted task still waits in the queue.
C3_Witness ==
    /\ Cardinality(Running) = MaxWorkers
    /\ \E r \in Rows : r <= submitted /\ pc[r] = "queued"

-----------------------------------------------------------------------------
(* Claims about the aggregation pass (SpecAgg) *)

\* The categories whose membership set holds ctx.
CategoriesOf(ctx) == {cat \in DOMAIN category_contexts : ctx \in category_contexts[cat]}

\* The pass has just stepped over node k - 1 without raising.
Stepped == apc = "loop" /\ k >= 2

\* C4: a matching element without contextRef, with empty text or with
\* non-numeric text is skipped without error: every well-formed document ends
\* as a 'success' outcome whose totals are those of its valid elements.
C4_InvalidElementsSkipped ==
    (apc = "done" /\ xml.wellformed) =>
        /\ result.value.status = "success"
        /\ result.value.data = ExpectedTotals(xml, category_contexts)

\* C8: the totals dict has exactly the category names as keys, from its
\* creation to its return; a document without matching elements returns 0 for
\* every category.
C8_EveryCategoryPresent ==
    /\ apc = "loop" => DOMAIN totals = Categories
    /\ (apc = "done" /\ result.value.status = "success") =>
          /\ DOMAIN result.value.data = Categories
          /\ xpath(xml.elems) = <<>> =>
                \A cat \in Categories : result.value.data[cat] = 0

\* A document with an element, none of them matching, returned all-zero totals.
C8_Witness ==
    /\ apc = "done"
    /\ xml.wellformed
    /\ xml.elems # <<>>
    /\ xpath(xml.elems) = <<>>
    /\ result.value.status = "success"
    /\ result.value.data = [cat \in Categories |-> 0]

\* C9: the loop iteration over a datum whose context ref is in exactly one
\* category's set adds the datum's value to that category's total and leaves
\* the other totals as they were; for a context ref in no set all totals stay.
C9_SingleCategoryStep ==
    [][(apc = "loop" /\ k <= Len(nodes) /\ IsDatum(nodes[k])) =>
        LET n == nodes[k]
            cats == CategoriesOf(n.contextRef)
        IN /\ apc' = "loop" /\ k' = k + 1
           /\ Cardinality(cats) = 1 =>
                \A cat \in Categories :
                    totals'[cat] = IF cat \in cats
                                   THEN totals[cat] + Float(n.text).val
                                   ELSE totals[cat]
           /\ cats = {} => totals' = totals]_vars

\* Two data of the same single category have been added one after the other.
C9_Witness ==
    /\ apc = "loop"
    /\ k = 3
    /\ IsDatum(nodes[1]) /\ IsDatum(nodes[2])
    /\ CategoriesOf(nodes[1].contextRef) = {"perf_bank"}
    /\ CategoriesOf(nodes[2].contextRef) = {"perf_bank"}
    /\ nodes[1] # nodes[2]
    /\ totals["perf_bank"] = 5

\* C10: the loop iteration over a datum whose context ref is in the sets of
\* several categories adds the datum's value to the total of each of them.
C10_FanOutStep ==
    [][(apc = "loop" /\ k <= Len(nodes) /\ IsDatum(nodes[k])
            /\ Cardinality(CategoriesOf(nodes[k].contextRef)) >= 2) =>
        /\ apc' = "loop" /\ k' = k + 1
        /\ \A cat \in CategoriesOf(nodes[k].contextRef) :
                totals'[cat] = totals[cat] + Float(nodes[k].text).val
        /\ \A cat \in Categories \ CategoriesOf(nodes[k].contextRef) :
                totals'[cat] = totals[cat]]_vars

\* A datum of three categories has been added to all three totals.
C10_Witness ==
    /\ Stepped
    /\ k = 2
    /\ IsDatum(nodes[1])
    /\ CategoriesOf(nodes[1].contextRef) =
          {"perf_bank", "perf_public", "perf_insur"}
    /\ \A cat \in {"perf_bank", "perf_public", "perf_insur"} :
          totals[cat] = Float(nodes[1].text).val
    /\ totals["perf_bank"] # 0

-----------------------------------------------------------------------------
(* Claims about one fetch (SpecFetch) *)

\* A failure the retry policy is stated for: connection failure, timeout, or
\* one of the five listed statuses.
StatedRetryable(resp) ==
    resp.kind # "http" \/ resp.status \in {429, 500, 502, 503, 504}

AllStatedRetryable(n) == \A i \in 1..n : StatedRetryable(log[i])

FetchOver == pc[1] = "done"

\* The log shows failures the policy retries, then a 200 as the last exchange.
RetriedThenSucceeded ==
    /\ FetchOver
    /\ Len(log) >= 2
    /\ AllStatedRetryable(Len(log) - 1)
    /\ log[Len(log)].kind = "http"
    /\ log[Len(log)].status = 200

\* Whether a body parses and aggregates: well-formed, and every matching
\* element with a context ref and a text has a numeric text.
Aggregates(doc) ==
    /\ doc.wellformed
    /\ \A i \in 1..Len(doc.elems) :
          LET n == doc.elems[i]
          IN (n.local = TargetName /\ Truthy(n.contextRef) /\ Truthy(n.text))
                => Float(n.text).ok

\* C5 as stated: at most 5 HTTP attempts per fetch; after 5 retryable
\* failures the fetch has failed and nothing more is sent.
C5_AtMostFiveAttempts ==
    /\ Len(log) <= 5
    /\ (Len(log) = 5 /\ AllStatedRetryable(5)) => FetchOver

\* C5 amended: at most 6 HTTP attempts per fetch (the first and 5 retries);
\* after 6 retryable failures the fetch has failed with a fetch error, the row
\* is an 'error' outcome, and no 7th attempt is made.
C5_AtMostSixAttempts ==
    /\ Len(log) <= 6
    /\ Len(log) = 6 => FetchOver
    /\ (Len(log) = 6 /\ AllStatedRetryable(6)) =>
          /\ response[1].raised
          /\ ~future[1].exception
          /\ future[1].value.status = "error"

\* Six 503 answers in a row ended the fetch with an error outcome.
C5_Witness ==
    /\ Len(log) = 6
    /\ \A i \in 1..6 : log[i].kind = "http" /\ log[i].status = 503
    /\ FetchOver
    /\ response[1].raised
    /\ future[1].value.status = "error"

\* C6 as stated: retryable failures followed by a successful attempt give
\* that response's content and a 'success' outcome.
C6_RetryThenSuccess ==
    RetriedThenSucceeded =>
        /\ ~response[1].raised
        /\ response[1].content = log[Len(log)].content
        /\ ~future[1].exception
        /\ future[1].value.status = "success"

\* C6 amended: retryable failures followed by a successful attempt give that
\* response's content, and the row's outcome is the one this content alone
\* determines: 'success' with the content's totals when it parses and
\* aggregates, otherwise 'error' naming the parse or value error; the failed
\* attempts leave no trace in it.
C6_RetryLeavesNoTrace ==
    RetriedThenSucceeded =>
        LET body == log[Len(log)].content
        IN /\ ~response[1].raised
           /\ response[1].content = body
           /\ ~future[1].exception
           /\ future[1].value.symbol = df[1].symbol
           /\ Aggregates(body) =>
                /\ future[1].value.status = "success"
                /\ future[1].value.data = ExpectedTotals(body, category_contexts)
           /\ ~Aggregates(body) =>
                /\ future[1].value.status = "error"
                /\ future[1].value.error[3] \in {"XMLSyntaxError", "ValueError"}

\* 503, 503, then 200 with a document: 'success' with the document's totals.
C6_Witness ==
    /\ RetriedThenSucceeded
    /\ Len(log) = 3
    /\ log[1].kind = "http" /\ log[1].status = 503
    /\ log[2].kind = "http" /\ log[2].status = 503
    /\ future[1].value.status = "success"
    /\ future[1].value.data["perf_bank"] = 10

\* The first answer carries an error status outside the five listed ones.
FirstNonRetryableStatus ==
    /\ Len(log) >= 1
    /\ log[1].kind = "http"
    /\ log[1].status >= 400
    /\ log[1].status \notin {429, 500, 502, 503, 504}

\* C7 as stated: a first response with an error status outside
\* {429,500,502,503,504} ends the fetch after that one attempt, as an 'error'.
C7_NonRetryableFailsAtOnce ==
    FirstNonRetryableStatus =>
        /\ Len(log) = 1
        /\ FetchOver
        /\ future[1].value.status = "error"

\* C7 amended: a first response with an error status outside
\* {429,500,502,503,504} that is not a 413 carrying a Retry-After header ends
\* the fetch after that one attempt, as an 'error' outcome.
C7_NonRetryableFailsAtOnceUnlessRetryAfter ==
    (FirstNonRetryableStatus /\ ~(log[1].status = 413 /\ log[1].retry_after)) =>
        /\ Len(log) = 1
        /\ FetchOver
        /\ ~future[1].exception
        /\ future[1].value.status = "error"
        /\ future[1].value.error[3] = "HTTPError"

\* A 404 ended the fetch at the first attempt.
C7_Witness ==
    /\ Len(log) = 1
    /\ log[1].kind = "http" /\ log[1].status = 404
    /\ FetchOver
    /\ future[1].value.status = "error"

-----------------------------------------------------------------------------
(* Further claims about the aggregation pass (SpecAgg) *)

Succeeded == apc = "done" /\ result.value.status = "success"

\* C11: the returned total of every category is the sum of the values of all
\* valid matching elements whose context ref is in the category's set, each
\* element counted once, also when a context ref occurs on several elements.
C11_TotalsAreSums ==
    Succeeded =>
        \A cat \in DOMAIN category_contexts :
            result.value.data[cat] = SumOfValid(xml.elems, category_contexts[cat])

\* The same context ref on two elements with the values 10 and 3: 13.
C11_Witness ==
    /\ Succeeded
    /\ Len(xml.elems) = 2
    /\ xml.elems[1].contextRef = "DetailsOfSharesHeldByBanks001I"
    /\ xml.elems[2].contextRef = "DetailsOfSharesHeldByBanks001I"
    /\ xml.elems[1].text = "10" /\ xml.elems[2].text = "3"
    /\ result.value.data["perf_bank"] = 13

\* The elements of a document whose local name is the target name, whatever
\* their prefix.
RECURSIVE WithLocalName(_)
WithLocalName(elems) ==
    IF elems = <<>> THEN <<>>
    ELSE (IF Head(elems).local = TargetName THEN <<Head(elems)>> ELSE <<>>)
         \o WithLocalName(Tail(elems))

\* C17: selection goes by the local name alone.  The node list is the list of
\* the elements with the target local name under any prefix; a document with
\* one such element, context ref X and numeric text v, yields the one datum
\* (X, v), that is v in the categories of X and 0 elsewhere; elements with
\* another local name yield nothing.
C17_SelectionByLocalName ==
    /\ apc = "loop" =>
          /\ nodes = WithLocalName(xml.elems)
          /\ \A i \in 1..Len(nodes) : nodes[i].local = TargetName
    /\ (Succeeded /\ Len(WithLocalName(xml.elems)) = 1
            /\ IsDatum(WithLocalName(xml.elems)[1])) =>
          LET n == WithLocalName(xml.elems)[1]
          IN \A cat \in DOMAIN category_contexts :
                result.value.data[cat] =
                    IF n.contextRef \in category_contexts[cat]
                    THEN Float(n.text).val ELSE 0
    /\ (Succeeded /\ WithLocalName(xml.elems) = <<>>) =>
          \A cat \in DOMAIN category_contexts : result.value.data[cat] = 0

\* One element with the prefix xbrli beside one with another local name: the
\* datum of the first is in the totals, nothing of the second.
C17_Witness ==
    /\ Succeeded
    /\ Len(xml.elems) = 2
    /\ xml.elems[1].ns = "xbrli" /\ xml.elems[1].local = TargetName
    /\ xml.elems[2].local # TargetName
    /\ xml.elems[2].contextRef = "DetailsOfSharesHeldByBanks001I"
    /\ result.value.data["perf_bank"] = 3

-----------------------------------------------------------------------------
(* End to end over one row (SpecFetch) *)

\* The matching elements of doc that yield a datum of category cat.
DataOf(doc, cat, cc) ==
    {i \in 1..Len(doc.elems) :
        /\ doc.elems[i].local = TargetName
        /\ IsDatum(doc.elems[i])
        /\ doc.elems[i].contextRef \in cc[cat]}

\* doc aggregates and has exactly one datum per category, each of value v.
OnePerCategory(doc, v, cc) ==
    /\ Aggregates(doc)
    /\ \A cat \in Categories :
          /\ Cardinality(DataOf(doc, cat, cc)) = 1
          /\ \A i \in DataOf(doc, cat, cc) : Float(doc.elems[i].text).val = v

\* C12: a row whose fetch succeeded with a document holding exactly one valid
\* matching element per category, each of value v, ends with status 'success'
\* and the total v in each of the six categories.
C12_OnePerCategoryEndToEnd ==
    \A v \in {7, 10} :
        (FetchOver /\ Fetched(response[1])
            /\ OnePerCategory(response[1].content, v, category_contexts)) =>
                /\ ~future[1].exception
                /\ future[1].value.symbol = df[1].symbol
                /\ future[1].value.status = "success"
                /\ future[1].value.data = [cat \in Categories |-> v]
                /\ yielded = {1} => all_results = <<future[1].value>>

\* The six-element filing with the value 10, fetched and collected.
C12_Witness ==
    /\ FetchOver
    /\ yielded = {1}
    /\ Fetched(response[1])
    /\ OnePerCategory(response[1].content, 10, category_contexts)
    /\ Len(response[1].content.elems) = 7
    /\ all_results[1].data["perf_insur"] = 10

-----------------------------------------------------------------------------
(* The result table (Spec) *)

TableBuilt == Len(result_df) = 1

\* C13: the wide table has exactly one row per outcome, in the order of
\* all_results.  The row of a 'success' outcome holds the symbol, the status
\* and one value per category, and no error detail; the row of an 'error'
\* outcome holds the symbol, the status and the error detail, and no value in
\* any category column.
C13_OneTableRowPerOutcome ==
    TableBuilt =>
        LET t == result_df[1]
        IN /\ Len(t.rows) = Len(all_results)
           /\ Len(t.rows) = Len(df)
           /\ \A i \in DOMAIN t.rows :
                LET row == t.rows[i]
                    res == all_results[i]
                IN /\ row["symbol"] = Cell(res.symbol)
                   /\ row["status"] = Cell(res.status)
                   /\ res.status = "success" =>
                        /\ \A cat \in Categories :
                              cat \in t.columns /\ row[cat] = Cell(res.data[cat])
                        /\ "error" \in t.columns => row["error"].isna
                   /\ res.status = "error" =>
                        /\ "error" \in t.columns
                        /\ row["error"] = Cell(res.error)
                        /\ \A cat \in Categories \cap t.columns : row[cat].isna

\* A table of a run in which one row failed and the others succeeded.
C13_Witness ==
    /\ TableBuilt
    /\ Len(result_df[1].rows) = NumRows
    /\ result_df[1].columns = {"symbol", "status", "error"} \cup Categories
    /\ \E i, j \in DOMAIN result_df[1].rows :
          /\ result_df[1].rows[i]["status"].value = "error"
          /\ result_df[1].rows[i]["perf_bank"].isna
          /\ result_df[1].rows[j]["status"].value = "success"
          /\ result_df[1].rows[j]["perf_bank"] = Cell(10)

-----------------------------------------------------------------------------
(* Identity of the outcomes (SpecDup) *)

KeyFields == {"symbol", "date"}

\* The input rows that agree with outcome o on every key field o carries.
RowsMatching(o) ==
    {r \in Rows : \A f \in KeyFields \cap DOMAIN o : o[f] = df[r][f]}

\* C14: every outcome carries the symbol and the date of its input row, and
\* can be matched back to exactly one input row, in every completion order.
C14_OutcomeCarriesRowKeys ==
    \A i \in DOMAIN all_results :
        /\ KeyFields \subseteq DOMAIN all_results[i]
        /\ Cardinality(RowsMatching(all_results[i])) = 1

-----------------------------------------------------------------------------
(* Shared state of the discovery run (SpecRefs) *)

\* The workers inside "with refs_lock".
InsideUpdate == {r \in Rows : pc[r] \in {"locked", "updated"}}

\* C15: no two workers are inside an update of shared state at once.  At most
\* one worker is inside "with refs_lock", and it is the holder of the lock;
\* unique_context_refs changes only in a step of the worker that holds the
\* lock; the collecting state of the main thread (its counter and the set of
\* futures it has taken) changes only in a step in which no worker moves.
C15_SharedStateExclusive ==
    [][ /\ Cardinality(InsideUpdate') <= 1
        /\ \A r \in InsideUpdate' : refs_lock' = r
        /\ unique_context_refs' # unique_context_refs =>
              /\ refs_lock # 0
              /\ refs_lock' = refs_lock
              /\ pc[refs_lock] = "locked"
              /\ pc' = [pc EXCEPT ![refs_lock] = "updated"]
        /\ (completed' # completed \/ yielded' # yielded) =>
              /\ pc' = pc
              /\ completed' = completed + 1
              /\ unique_context_refs' = unique_context_refs
      ]_vars

\* One worker has updated the set and still holds the lock while another has
\* extracted its list and waits for the lock, after an earlier update.
C15_Witness ==
    /\ \E r, q \in Rows : pc[r] = "updated" /\ refs_lock = r /\ pc[q] = "extracted"
    /\ \E r \in Rows : pc[r] = "done" /\ future[r].value > 0
    /\ Cardinality(unique_context_refs) = 3

-----------------------------------------------------------------------------
(* Completion order (Spec) *)

\* The outcome of row r as a function of what its own fetch ended with.
ExpectedOutcome(r) ==
    process_stock_for_context_refs(df[r], response[r], category_contexts).value

\* C16: whatever the interleaving and the completion order, a finished run has
\* produced, for the fetch results the rows had, the same outcomes: one per
\* row, each the outcome of that row's own fetch result, and nothing else;
\* only the positions in all_results depend on the order.
C16_OutcomeSetIndependentOfOrder ==
    Done =>
        /\ Len(all_results) = Len(df)
        /\ \A r \in Rows : \E i \in DOMAIN all_results :
              all_results[i] = ExpectedOutcome(r)
        /\ \A i \in DOMAIN all_results : \E r \in Rows :
              all_results[i] = ExpectedOutcome(r)

\* A finished run collected in an order other than the table's: the last row
\* first, the first row last, with different outcomes.
C16_Witness ==
    /\ Done
    /\ all_results[1].symbol = df[NumRows].symbol
    /\ all_results[NumRows].symbol = df[1].symbol
    /\ all_results[1].status = "error"
    /\ all_results[NumRows].status = "success"

-----------------------------------------------------------------------------
(* Configuration errors (SpecEmptyTable) *)

\* C18: a run started with an empty category table fails before any row is
\* processed: no row leaves the queue, no fetch is issued, no outcome is
\* collected and no table is built.
C18_EmptyTableStopsTheRun ==
    DOMAIN category_contexts = {} =>
        /\ \A r \in Rows : pc[r] = "queued"
        /\ all_results = <<>>
        /\ result_df = <<>>

-----------------------------------------------------------------------------
(* Connection pools (Spec) *)

\* C19: within one run all fetches share one session and so one connection
\* pool, and the size of the pool does not exceed the concurrency limit.
C19_OneBoundedPool ==
    /\ Cardinality(sessions) <= 1
    /\ \A s \in sessions : s.pool_maxsize <= MaxWorkers

-----------------------------------------------------------------------------
(* Failure records of the discovery run (SpecXbr) *)

\* C20: a row whose fetch ended in a connection error is recorded with
\* context_refs 'CONNECTION_ERROR' and num_categories -1, a row whose fetch
\* timed out with 'TIMEOUT' and -1 (a connect timeout is both a connection
\* error and a timeout: either record is accepted), and a row that failed in
\* any other way with an exception type name and num_categories 0.
C20_FailureRecords ==
    \A r \in Rows : pc[r] = "done" =>
        LET got == response[r]
            rec == future[r].value
        IN /\ (got.raised /\ got.exc = "ConnectionError") =>
                 /\ rec.context_refs = <<"CONNECTION_ERROR">>
                 /\ rec.num_categories = 0 - 1
           /\ (got.raised /\ got.exc = "ConnectTimeout") =>
                 /\ rec.context_refs \in {<<"TIMEOUT">>, <<"CONNECTION_ERROR">>}
                 /\ rec.num_categories = 0 - 1
           /\ (PipelineFailed(got) /\ ~(got.raised /\ got.exc \in
                                        {"ConnectionError", "ConnectTimeout"})) =>
                 /\ rec.context_refs \in
                        {<<"Exception">>, <<"RetryError">>, <<"HTTPError">>,
                         <<"XMLSyntaxError">>}
                 /\ rec.num_categories = 0

-----------------------------------------------------------------------------
(* Calls of extract_all_context_refs in one process (SpecRefsTwice) *)

\* The context refs of the documents of the rows of the current call.
RefsOfThisCall ==
    UNION {ContextRefsOf(response[r].content.elems) :
              r \in {q \in Rows : pc[q] = "done" /\ Fetched(response[q])}}

\* C21: when a call of extract_all_context_refs is over, the set it returns
\* and writes is exactly the union of the context refs extracted from the
\* rows of that call; a row whose extraction failed has returned 0.
C21_CallReturnsItsOwnRefs ==
    CallOver =>
        /\ unique_context_refs = RefsOfThisCall
        /\ \A r \in Rows : PipelineFailed(response[r]) => future[r].value = 0

-----------------------------------------------------------------------------
(* The merged table and the set of process_nse_xbr_data *)

\* The record of input row r, computed from what that row's fetch ended with.
RecordOf(r) == process_single_record(df[r], response[r])

\* C22: the table process_nse_xbr_data returns has exactly one row per input
\* row, in input order, and the context_refs and num_categories of each row
\* are those computed from that row's own document, also when input rows
\* share a symbol.
C22_MergeKeepsRows ==
    TableBuilt =>
        LET rows == result_df[1].rows
        IN /\ Len(rows) = Len(df)
           /\ \A i \in 1..Len(df) :
                 i \in DOMAIN rows =>
                    /\ rows[i]["symbol"] = Cell(df[i].symbol)
                    /\ rows[i]["xbrl"] = Cell(df[i].xbrl)
                    /\ rows[i]["context_refs"] = Cell(RecordOf(i).context_refs)
                    /\ rows[i]["num_categories"] = Cell(RecordOf(i).num_categories)

-----------------------------------------------------------------------------
(* The list extract_shareholding_pct returns (SpecExtract) *)

\* The place of a context ref in the order of strings.
Rank(c) == CHOOSE i \in DOMAIN SortedContexts : SortedContexts[i] = c

\* The matching elements of the document that have a non-empty contextRef.
WithContextRef ==
    {i \in DOMAIN xml.elems : /\ xml.elems[i].local = TargetName
                              /\ Truthy(xml.elems[i].contextRef)}

\* C24: the list extract_shareholding_pct returns for a well-formed document
\* is ascending and without duplicates, and holds exactly the contextRef
\* values of the matching elements with a non-empty contextRef, whatever
\* their text; elements without a contextRef raise nothing.
C24_SortedDistinctContextRefs ==
    apc = "extracted" =>
        /\ result.raised <=> ~xml.wellformed
        /\ ~result.raised =>
              /\ \A i, j \in DOMAIN result.refs :
                    i < j => Rank(result.refs[i]) < Rank(result.refs[j])
              /\ {result.refs[i] : i \in DOMAIN result.refs}
                    = {xml.elems[i].contextRef : i \in WithContextRef}

\* A document that lists PublicShareholdingI with a non-numeric text before
\* DetailsOfSharesHeldByBanks001I without text: the list holds both, in
\* sorted order, not in document order.
C24_Witness ==
    /\ apc = "extracted"
    /\ Len(xml.elems) = 2
    /\ xml.elems[1].contextRef = "PublicShareholdingI" /\ xml.elems[1].text = "abc"
    /\ xml.elems[2].contextRef = "DetailsOfSharesHeldByBanks001I"
    /\ xml.elems[2].text = None /\ xml.elems[2].local = TargetName
    /\ result.refs = <<"DetailsOfSharesHeldByBanks001I", "PublicShareholdingI">>

-----------------------------------------------------------------------------
(* Private totals, shared table (Spec) *)

\* C25: the totals of a row start from zero and belong to that row alone.
\* In every step the category table stays as it was; the outcome of a row
\* that has finished is not changed by anything that happens later; and the
\* totals of a finished row are those of its own document under the table,
\* whatever rows finished before it or are in flight beside it.
C25_TotalsPrivateTableFixed ==
    [][ /\ category_contexts' = category_contexts
        /\ \A r \in Rows : pc'[r] = "done" =>
              /\ pc[r] = "done" => future'[r] = future[r]
              /\ Fetched(response'[r]) =>
                    future'[r].value.data =
                        ExpectedTotals(response'[r].content, CATEGORY_CONTEXTS)
      ]_vars

\* Rows 1 and 2 both fetched the bank filing, one after the other finished
\* while row 3 was still in flight: each has the total 10, not 20.
C25_Witness ==
    /\ pc[1] = "done" /\ pc[2] = "done" /\ pc[3] = "running"
    /\ response[1].content = BankDoc /\ response[2].content = BankDoc
    /\ Fetched(response[1]) /\ Fetched(response[2])
    /\ future[1].value.data["perf_bank"] = 10
    /\ future[2].value.data["perf_bank"] = 10
    /\ category_contexts = CATEGORY_CONTEXTS

-----------------------------------------------------------------------------
(* Shape of a RowOutcome (SpecFetch) *)

\* The exception types a fetch can end with.
ExceptionTypes ==
    {"ConnectionError", "ConnectTimeout", "RetryError", "HTTPError",
     "XMLSyntaxError", "ValueError"}

\* C26: every outcome process_stock_for_context_refs returns has the status
\* 'success' or 'error'; a 'success' outcome has a total for every category
\* and no error field; an 'error' outcome has empty data and an error text
\* that is not empty and names the type of the exception.
C26_OutcomeShape ==
    \A r \in Rows : pc[r] = "done" =>
        LET o == future[r].value
        IN /\ ~future[r].exception
           /\ o.status \in {"success", "error"}
           /\ o.status = "success" =>
                 /\ DOMAIN o = {"symbol", "status", "data"}
                 /\ DOMAIN o.data = Categories
           /\ o.status = "error" =>
                 /\ DOMAIN o = {"symbol", "status", "error", "data"}
                 /\ o.data = EmptyDict
                 /\ Len(o.error) = 3
                 /\ \E t \in ExceptionTypes : o.error[Len(o.error)] = t

\* The fetch ran out of retries on 503 answers: an 'error' outcome whose text
\* names RetryError.
C26_Witness ==
    /\ FetchOver
    /\ Len(log) = RetryTotal + 1
    /\ future[1].value.status = "error"
    /\ future[1].value.error[3] = "RetryError"
    /\ future[1].value.data = EmptyDict

-----------------------------------------------------------------------------
(* Termination (SpecLive) *)

\* C27: under fair scheduling every run terminates.  A row in flight has
\* between 0 and RetryTotal retries left, so it makes at most RetryTotal + 1
\* attempts; every row eventually has an outcome, 'success' or 'error'; and
\* the collecting loop eventually ends with all rows collected and the table
\* built.
C27_RunTerminates ==
    /\ [](\A r \in Rows : pc[r] = "running" => retry_total[r] \in 0..RetryTotal)
    /\ \A r \in 1..NumRows :
          <>[](/\ pc[r] = "done"
               /\ future[r].value.status \in {"success", "error"})
    /\ <>[](Done /\ TableBuilt /\ Len(all_results) = NumRows)

\* A row that used all its retries on 503 answers before it succeeded or
\* failed, in a run that has ended.
C27_Witness ==
    /\ Done
    /\ TableBuilt
    /\ \E r \in Rows : response[r].raised /\ response[r].exc = "RetryError"
    /\ \E r \in Rows : Fetched(response[r])

-----------------------------------------------------------------------------
(* Waits between the attempts of one fetch (SpecFetch) *)

\* The waits the comment of get_session_with_retries lists for the retries.
StatedWaits == <<1, 2, 4, 8, 16>>

\* C28: the wait before the n-th retry of a fetch (the attempt n + 1) is
\* 1, 2, 4, 8, 16 seconds for n = 1..5, each the double of the one before.
C28_BackoffWaits ==
    \A i \in 2..Len(log) :
        log[i].slept.source = "backoff" =>
            /\ log[i].slept.seconds = StatedWaits[i - 1]
            /\ (i > 2 /\ log[i - 1].slept.source = "backoff") =>
                  log[i].slept.seconds = 2 * log[i - 1].slept.seconds

====
